---- MODULE Spec2Model ----
(***************************************************************************)
(* A model of src/src/ffi/mod.rs: the safe-looking wrappers around the     *)
(* chatcore C ABI.  Three groups of behaviour are modelled:                *)
(*   - the lifecycle (initialize / shutdown) run by concurrent threads;    *)
(*   - the marshalling wrappers (CString::new(..)? then one native call);  *)
(*   - read_file's decoding of the native result buffer.                   *)
(* The native library is the environment: what it returns is an input.     *)
(***************************************************************************)
EXTENDS Integers, Sequences, FiniteSets, TLC

VARIABLES
    START,                \* the std::sync::Once guarding the bootstrap
    tpc,                  \* per thread: where it is inside initialize()
    ncalls,               \* per thread: lifecycle calls made so far
    initReturned,         \* per thread: initialize() calls that have returned
    initialize_calls,     \* initialize() calls begun, all threads
    hs_init_calls,        \* times the native hs_init ran
    initChatClient_calls, \* times the native initChatClient ran
    hs_exit_calls,        \* times the native hs_exit ran
    pc,                   \* the single caller of the wrappers: idle / ready
    req,                  \* the wrapper call about to be made, with its inputs
    call,                 \* what the last wrapper call did and returned
    live                  \* tokens returned by an open and not yet closed

lifeVars == <<START, tpc, ncalls, initReturned, initialize_calls,
              hs_init_calls, initChatClient_calls, hs_exit_calls>>
callVars == <<pc, req, call, live>>
vars == <<START, tpc, ncalls, initReturned, initialize_calls, hs_init_calls,
          initChatClient_calls, hs_exit_calls, pc, req, call, live>>

(***************************************************************************)
(* Bounds of the model.                                                    *)
(***************************************************************************)
NThreads == 3      \* threads making lifecycle calls
MaxCalls == 2      \* lifecycle calls per thread
MaxStrLen == 2     \* length of a &str argument
MaxTokens == 2     \* distinct session tokens the native side hands out
MaxPayload == 2    \* payload length of the exhaustively enumerated buffers
MaxMsgBuf == 6     \* bytes after the status byte in a failure buffer

Threads == 1..NThreads

(***************************************************************************)
(* Lifecycle: START, initialize(), shutdown().                             *)
(***************************************************************************)
LifeInit ==
    /\ START = "INCOMPLETE"
    /\ tpc = [t \in Threads |-> "idle"]
    /\ ncalls = [t \in Threads |-> 0]
    /\ initReturned = [t \in Threads |-> 0]
    /\ initialize_calls = 0
    /\ hs_init_calls = 0
    /\ initChatClient_calls = 0
    /\ hs_exit_calls = 0

\* A thread enters initialize(): it is now at START.call_once(..).
initialize(t) ==
    /\ tpc[t] = "idle"
    /\ ncalls[t] < MaxCalls
    /\ tpc' = [tpc EXCEPT ![t] = "call_once"]
    /\ ncalls' = [ncalls EXCEPT ![t] = @ + 1]
    /\ initialize_calls' = initialize_calls + 1
    /\ UNCHANGED <<START, initReturned, hs_init_calls, initChatClient_calls,
                   hs_exit_calls>>

\* Once::call_once with the Once already complete: return at once.
call_once_done(t) ==
    /\ tpc[t] = "call_once"
    /\ START = "COMPLETE"
    /\ tpc' = [tpc EXCEPT ![t] = "idle"]
    /\ initReturned' = [initReturned EXCEPT ![t] = @ + 1]
    /\ UNCHANGED <<START, ncalls, initialize_calls, hs_init_calls,
                   initChatClient_calls, hs_exit_calls>>

\* The same entry without the Once's exclusion: every caller that does not
\* see COMPLETE runs the closure.
call_once_unguarded(t) ==
    /\ tpc[t] = "call_once"
    /\ START # "COMPLETE"
    /\ START' = "RUNNING"
    /\ tpc' = [tpc EXCEPT ![t] = "hs_init"]
    /\ UNCHANGED <<ncalls, initReturned, initialize_calls, hs_init_calls,
                   initChatClient_calls, hs_exit_calls>>

\* Once::call_once, first caller: it alone takes the Once from INCOMPLETE to
\* RUNNING and goes on to run the closure.  A caller that finds RUNNING has
\* no step here: it is blocked until the Once is COMPLETE.
call_once(t) ==
    /\ tpc[t] = "call_once"
    /\ START = "INCOMPLETE"
    /\ START' = "RUNNING"
    /\ tpc' = [tpc EXCEPT ![t] = "hs_init"]
    /\ UNCHANGED <<ncalls, initReturned, initialize_calls, hs_init_calls,
                   initChatClient_calls, hs_exit_calls>>

\* The closure's first statement.
hs_init(t) ==
    /\ tpc[t] = "hs_init"
    /\ hs_init_calls' = hs_init_calls + 1
    /\ tpc' = [tpc EXCEPT ![t] = "initChatClient"]
    /\ UNCHANGED <<START, ncalls, initReturned, initialize_calls,
                   initChatClient_calls, hs_exit_calls>>

\* The closure's second statement.
initChatClient(t) ==
    /\ tpc[t] = "initChatClient"
    /\ initChatClient_calls' = initChatClient_calls + 1
    /\ tpc' = [tpc EXCEPT ![t] = "closure_end"]
    /\ UNCHANGED <<START, ncalls, initReturned, initialize_calls,
                   hs_init_calls, hs_exit_calls>>

\* The closure has returned: the Once becomes COMPLETE and initialize()
\* returns to its caller.
call_once_complete(t) ==
    /\ tpc[t] = "closure_end"
    /\ START' = "COMPLETE"
    /\ tpc' = [tpc EXCEPT ![t] = "idle"]
    /\ initReturned' = [initReturned EXCEPT ![t] = @ + 1]
    /\ UNCHANGED <<ncalls, initialize_calls, hs_init_calls,
                   initChatClient_calls, hs_exit_calls>>

\* shutdown(): one unconditional native call.
shutdown(t) ==
    /\ tpc[t] = "idle"
    /\ ncalls[t] < MaxCalls
    /\ ncalls' = [ncalls EXCEPT ![t] = @ + 1]
    /\ hs_exit_calls' = hs_exit_calls + 1
    /\ UNCHANGED <<START, tpc, initReturned, initialize_calls, hs_init_calls,
                   initChatClient_calls>>

(***************************************************************************)
(* Values crossing the boundary.                                           *)
(*   &str       a sequence of bytes (no terminator of its own)             *)
(*   CString    the bytes followed by one 0 byte                           *)
(*   *const T   [null, mem]: null, or the bytes of the native allocation   *)
(*              it points to, mem[i + 1] being the byte at offset i        *)
(*   ctrl       a token: 0 is the null pointer, 1..MaxTokens are sessions  *)
(*   &[u8]      [ptr, len]: len is a usize, written as four 16-bit limbs,  *)
(*              most significant first                                     *)
(***************************************************************************)
NullCtrl == 0

NullPtr == [null |-> TRUE, mem |-> <<>>]

Ptr(m) == [null |-> FALSE, mem |-> m]

Limb == 256 * 256

NoData == [ptr |-> 0, len |-> <<0, 0, 0, 0>>]

SeqsUpTo(S, n) == UNION {[1..k -> S] : k \in 0..n}

\* CString::new without the scan of the whole string: only a leading 0 byte
\* is rejected.
CString_new_first_byte(s) ==
    IF Len(s) > 0 /\ s[1] = 0
    THEN [ok |-> FALSE, bytes |-> <<>>]
    ELSE [ok |-> TRUE, bytes |-> Append(s, 0)]

\* CString::new(s): NulError when any byte of s is 0, else s with the
\* terminator appended.
CString_new(s) ==
    IF \E i \in 1..Len(s) : s[i] = 0
    THEN [ok |-> FALSE, bytes |-> <<>>]
    ELSE [ok |-> TRUE, bytes |-> Append(s, 0)]

\* `n as c_int` for a usize n: the low 32 bits, read as two's complement.
as_c_int(n) ==
    IF n[3] >= Limb \div 2
    THEN (n[3] - Limb) * Limb + n[4]
    ELSE n[3] * Limb + n[4]

\* `b as c_int` for a bool.
bool_as_c_int(b) == IF b THEN 1 ELSE 0

(***************************************************************************)
(* What one wrapper call does: the native invocations it made, in order,   *)
(* the offsets of the native result buffer it read, and what it returned.  *)
(***************************************************************************)
NoResult ==
    [kind |-> "None", err |-> "", ptr |-> NullPtr, tok |-> 0, n |-> 0,
     data |-> <<>>, junk |-> FALSE, msg |-> <<>>]

Ok_unit == [NoResult EXCEPT !.kind = "Ok"]

Ok_ptr(p) == [NoResult EXCEPT !.kind = "Ok", !.ptr = p]

Ok_open(t, p) == [NoResult EXCEPT !.kind = "Ok", !.tok = t, !.ptr = p]

Ok_int(n) == [NoResult EXCEPT !.kind = "Ok", !.n = n]

Ok_data(status, n, d, j) ==
    [NoResult EXCEPT !.kind = "Ok", !.tok = status, !.n = n, !.data = d,
                     !.junk = j]

Err(e) == [NoResult EXCEPT !.kind = "Err", !.err = e]

ChatError(m) == [NoResult EXCEPT !.kind = "Err", !.err = "ChatError", !.msg = m]

\* The process died inside the call (a fault on a wild read): no return.
Crash == [NoResult EXCEPT !.kind = "Crash"]

NativeCall(fn, ctrl, strs, ints, len) ==
    [fn |-> fn, ctrl |-> ctrl, strs |-> strs, ints |-> ints, len |-> len]

NoCall == [native |-> <<>>, reads |-> {}, result |-> NoResult]

\* The `?` on a CString::new: return Err(InvalidString), nothing invoked.
InvalidString == [native |-> <<>>, reads |-> {}, result |-> Err("InvalidString")]

Invoked(nc, res) == [native |-> <<nc>>, reads |-> {}, result |-> res]

(***************************************************************************)
(* The wrappers.  Each is the function's body: the CString::new(..)? of    *)
(* its string arguments in source order, then the one native call, whose   *)
(* return value (ret, tok, n) is the environment's choice.                 *)
(***************************************************************************)
send_message(message) ==
    LET c_message == CString_new(message) IN
    IF ~c_message.ok THEN InvalidString
    ELSE Invoked(NativeCall("sendMessage", NullCtrl, <<c_message.bytes>>, <<>>, 0),
                 Ok_unit)

migrate_init(path, key, confirm, tok, ret) ==
    LET c_path == CString_new(path)
        c_key == CString_new(key)
        c_confirm == CString_new(confirm)
    IN  IF ~c_path.ok THEN InvalidString
        ELSE IF ~c_key.ok THEN InvalidString
        ELSE IF ~c_confirm.ok THEN InvalidString
        ELSE Invoked(NativeCall("chat_migrate_init", NullCtrl,
                                <<c_path.bytes, c_key.bytes, c_confirm.bytes>>,
                                <<>>, 0),
                     Ok_open(tok, ret))

migrate_init_key(path, key, keep_key, confirm, background_mode, tok, ret) ==
    LET c_path == CString_new(path)
        c_key == CString_new(key)
        c_confirm == CString_new(confirm)
    IN  IF ~c_path.ok THEN InvalidString
        ELSE IF ~c_key.ok THEN InvalidString
        ELSE IF ~c_confirm.ok THEN InvalidString
        ELSE Invoked(NativeCall("chat_migrate_init_key", NullCtrl,
                                <<c_path.bytes, c_key.bytes, c_confirm.bytes>>,
                                <<bool_as_c_int(keep_key),
                                  bool_as_c_int(background_mode)>>, 0),
                     Ok_open(tok, ret))

close_store(ctrl, ret) ==
    Invoked(NativeCall("chat_close_store", ctrl, <<>>, <<>>, 0), Ok_ptr(ret))

reopen_store(ctrl, ret) ==
    Invoked(NativeCall("chat_reopen_store", ctrl, <<>>, <<>>, 0), Ok_ptr(ret))

send_cmd(ctrl, cmd, ret) ==
    LET c_cmd == CString_new(cmd) IN
    IF ~c_cmd.ok THEN InvalidString
    ELSE Invoked(NativeCall("chat_send_cmd", ctrl, <<c_cmd.bytes>>, <<>>, 0),
                 Ok_ptr(ret))

send_remote_cmd(ctrl, rh_id, cmd, ret) ==
    LET c_cmd == CString_new(cmd) IN
    IF ~c_cmd.ok THEN InvalidString
    ELSE Invoked(NativeCall("chat_send_remote_cmd", ctrl, <<c_cmd.bytes>>,
                            <<rh_id>>, 0),
                 Ok_ptr(ret))

recv_msg(ctrl, ret) ==
    Invoked(NativeCall("chat_recv_msg", ctrl, <<>>, <<>>, 0), Ok_ptr(ret))

recv_msg_wait(ctrl, wait, ret) ==
    Invoked(NativeCall("chat_recv_msg_wait", ctrl, <<>>, <<wait>>, 0),
            Ok_ptr(ret))

encrypt_media(ctrl, key, data, ret) ==
    LET c_key == CString_new(key) IN
    IF ~c_key.ok THEN InvalidString
    ELSE Invoked(NativeCall("chat_encrypt_media", ctrl, <<c_key.bytes>>,
                            <<data.ptr>>, as_c_int(data.len)),
                 Ok_ptr(ret))

decrypt_media(key, data, ret) ==
    LET c_key == CString_new(key) IN
    IF ~c_key.ok THEN InvalidString
    ELSE Invoked(NativeCall("chat_decrypt_media", NullCtrl, <<c_key.bytes>>,
                            <<data.ptr>>, as_c_int(data.len)),
                 Ok_ptr(ret))

parse_markdown(str, ret) ==
    LET c_str == CString_new(str) IN
    IF ~c_str.ok THEN InvalidString
    ELSE Invoked(NativeCall("chat_parse_markdown", NullCtrl, <<c_str.bytes>>,
                            <<>>, 0),
                 Ok_ptr(ret))

parse_server(str, ret) ==
    LET c_str == CString_new(str) IN
    IF ~c_str.ok THEN InvalidString
    ELSE Invoked(NativeCall("chat_parse_server", NullCtrl, <<c_str.bytes>>,
                            <<>>, 0),
                 Ok_ptr(ret))

password_hash(pwd, salt, ret) ==
    LET c_pwd == CString_new(pwd)
        c_salt == CString_new(salt)
    IN  IF ~c_pwd.ok THEN InvalidString
        ELSE IF ~c_salt.ok THEN InvalidString
        ELSE Invoked(NativeCall("chat_password_hash", NullCtrl,
                                <<c_pwd.bytes, c_salt.bytes>>, <<>>, 0),
                     Ok_ptr(ret))

valid_name(name, ret) ==
    LET c_name == CString_new(name) IN
    IF ~c_name.ok THEN InvalidString
    ELSE Invoked(NativeCall("chat_valid_name", NullCtrl, <<c_name.bytes>>,
                            <<>>, 0),
                 Ok_ptr(ret))

json_length(str, n) ==
    LET c_str == CString_new(str) IN
    IF ~c_str.ok THEN InvalidString
    ELSE Invoked(NativeCall("chat_json_length", NullCtrl, <<c_str.bytes>>,
                            <<>>, 0),
                 Ok_int(n))

write_file(ctrl, path, data, ret) ==
    LET c_path == CString_new(path) IN
    IF ~c_path.ok THEN InvalidString
    ELSE Invoked(NativeCall("chat_write_file", ctrl, <<c_path.bytes>>,
                            <<data.ptr>>, as_c_int(data.len)),
                 Ok_ptr(ret))

encrypt_file(ctrl, from_path, to_path, ret) ==
    LET c_from_path == CString_new(from_path)
        c_to_path == CString_new(to_path)
    IN  IF ~c_from_path.ok THEN InvalidString
        ELSE IF ~c_to_path.ok THEN InvalidString
        ELSE Invoked(NativeCall("chat_encrypt_file", ctrl,
                                <<c_from_path.bytes, c_to_path.bytes>>, <<>>, 0),
                     Ok_ptr(ret))

decrypt_file(from_path, key, nonce, to_path, ret) ==
    LET c_from_path == CString_new(from_path)
        c_key == CString_new(key)
        c_nonce == CString_new(nonce)
        c_to_path == CString_new(to_path)
    IN  IF ~c_from_path.ok THEN InvalidString
        ELSE IF ~c_key.ok THEN InvalidString
        ELSE IF ~c_nonce.ok THEN InvalidString
        ELSE IF ~c_to_path.ok THEN InvalidString
        ELSE Invoked(NativeCall("chat_decrypt_file", NullCtrl,
                                <<c_from_path.bytes, c_key.bytes, c_nonce.bytes,
                                  c_to_path.bytes>>, <<>>, 0),
                     Ok_ptr(ret))

(***************************************************************************)
(* read_file: the decoding of the native result buffer.                    *)
(***************************************************************************)
\* What a read past the end of the native allocation may yield.
JunkBytes == {0, 127}

Min(S) == CHOOSE x \in S : \A y \in S : x <= y

\* *res.offset(o): the byte at offset o; past the allocation, junk j.
Rd(mem, o, j) == IF o < Len(mem) THEN mem[o + 1] ELSE j

\* u32::from_le_bytes: the same four bytes, least significant first.
from_le_bytes(b) == b[4] * 16777216 + b[3] * 65536 + b[2] * 256 + b[1]

\* u32::from_be_bytes.
from_be_bytes(b) == b[1] * 16777216 + b[2] * 65536 + b[3] * 256 + b[4]

\* str::from_utf8's validation (CStr::to_str), by the Unicode table of
\* well-formed byte sequences.
Utf8Width(b) ==
    IF b < 128 THEN 1
    ELSE IF b >= 194 /\ b <= 223 THEN 2
    ELSE IF b >= 224 /\ b <= 239 THEN 3
    ELSE IF b >= 240 /\ b <= 244 THEN 4
    ELSE 0

Utf8Second(b) ==
    IF b = 224 THEN 160..191
    ELSE IF b = 237 THEN 128..159
    ELSE IF b = 240 THEN 144..191
    ELSE IF b = 244 THEN 128..143
    ELSE 128..191

RECURSIVE Utf8ValidFrom(_, _)
Utf8ValidFrom(s, i) ==
    IF i > Len(s) THEN TRUE
    ELSE LET w == Utf8Width(s[i]) IN
         /\ w > 0
         /\ i + w - 1 <= Len(s)
         /\ w >= 2 => s[i + 1] \in Utf8Second(s[i])
         /\ \A k \in 2..(w - 1) : s[i + k] \in 128..191
         /\ Utf8ValidFrom(s, i + w)

Utf8Valid(s) == Utf8ValidFrom(s, 1)

\* The failure branch with the message taken from after the length field
\* (offset 5) instead of from offset 1.
ErrorMessageAfterLength(mem, j) ==
    LET zeros == {o \in 5..Len(mem) : Rd(mem, o, j) = 0} IN
    IF zeros = {}
    THEN [reads |-> 0..Len(mem), result |-> Crash]
    ELSE LET term == Min(zeros)
             msg == [i \in 1..(term - 5) |-> mem[i + 5]]
         IN  [reads |-> 0..term,
              result |-> IF Utf8Valid(msg) THEN ChatError(msg)
                         ELSE Err("Utf8Error")]

\* The failure branch: CStr::from_ptr(res.offset(1)) scans from offset 1 to
\* the first 0 byte, then .to_str()?.  With no 0 byte inside the allocation
\* the scan runs on into whatever follows it.
ErrorMessage(mem, j) ==
    LET zeros == {o \in 1..Len(mem) : Rd(mem, o, j) = 0} IN
    IF zeros = {}
    THEN [reads |-> 0..Len(mem), result |-> Crash]
    ELSE LET term == Min(zeros)
             msg == [i \in 1..(term - 1) |-> mem[i + 1]]
         IN  [reads |-> 0..4 \cup 1..term,
              result |-> IF Utf8Valid(msg) THEN ChatError(msg)
                         ELSE Err("Utf8Error")]

\* Lines 302-318 on a non-null res, the bytes past the allocation being j.
Decode(mem, j) ==
    LET status == Rd(mem, 0, j)
        len_bytes == <<Rd(mem, 1, j), Rd(mem, 2, j), Rd(mem, 3, j), Rd(mem, 4, j)>>
        len == from_be_bytes(len_bytes)
    IN  IF status = 0
        THEN LET inside == IF Len(mem) - 5 < len THEN Len(mem) - 5 ELSE len
                 data == [i \in 1..inside |-> mem[i + 5]]
             IN  [reads |-> 0..(4 + len),
                  result |-> Ok_data(status, len, data, 5 + len > Len(mem))]
        ELSE ErrorMessage(mem, j)

\* read_file with the null check left out.
read_file_unchecked(path, key, nonce, res) ==
    LET c_path == CString_new(path)
        c_key == CString_new(key)
        c_nonce == CString_new(nonce)
        nc == NativeCall("chat_read_file", NullCtrl,
                         <<c_path.bytes, c_key.bytes, c_nonce.bytes>>, <<>>, 0)
    IN  IF ~c_path.ok THEN {InvalidString}
        ELSE IF ~c_key.ok THEN {InvalidString}
        ELSE IF ~c_nonce.ok THEN {InvalidString}
        ELSE IF res.null
        THEN {[native |-> <<nc>>, reads |-> 0..4, result |-> Crash]}
        ELSE {[native |-> <<nc>>, reads |-> Decode(res.mem, j).reads,
               result |-> Decode(res.mem, j).result] : j \in JunkBytes}

\* read_file: the set of outcomes.  A read past the allocation is undefined
\* behaviour: the call may fault there, or go on with junk for those bytes.
read_file(path, key, nonce, res) ==
    LET c_path == CString_new(path)
        c_key == CString_new(key)
        c_nonce == CString_new(nonce)
        nc == NativeCall("chat_read_file", NullCtrl,
                         <<c_path.bytes, c_key.bytes, c_nonce.bytes>>, <<>>, 0)
    IN  IF ~c_path.ok THEN {InvalidString}
        ELSE IF ~c_key.ok THEN {InvalidString}
        ELSE IF ~c_nonce.ok THEN {InvalidString}
        ELSE IF res.null
        THEN {[native |-> <<nc>>, reads |-> {}, result |-> Err("NullPointer")]}
        ELSE LET outs == {Decode(res.mem, j) : j \in JunkBytes}
                 wild == {d \in outs : \E o \in d.reads : o >= Len(res.mem)}
             IN  {[native |-> <<nc>>, reads |-> d.reads, result |-> d.result] :
                     d \in outs}
                 \cup {[native |-> <<nc>>, reads |-> d.reads, result |-> Crash] :
                     d \in wild}

(***************************************************************************)
(* The wrappers' signatures: what each takes.                              *)
(***************************************************************************)
Ops ==
    {"send_message", "migrate_init", "migrate_init_key", "close_store",
     "reopen_store", "send_cmd", "send_remote_cmd", "recv_msg", "recv_msg_wait",
     "encrypt_media", "decrypt_media", "parse_markdown", "parse_server",
     "password_hash", "valid_name", "json_length", "write_file", "read_file",
     "encrypt_file", "decrypt_file"}

\* The wrappers with a ctrl parameter.
SessionOps ==
    {"close_store", "reopen_store", "send_cmd", "send_remote_cmd", "recv_msg",
     "recv_msg_wait", "encrypt_media", "write_file", "encrypt_file"}

\* The wrappers that return a token through the ctrl out-parameter.
OpenOps == {"migrate_init", "migrate_init_key"}

\* The wrappers with a &[u8] parameter.
DataOps == {"encrypt_media", "decrypt_media", "write_file"}

\* How many &str parameters.
NStr(op) ==
    CASE op \in {"close_store", "reopen_store", "recv_msg", "recv_msg_wait"} -> 0
      [] op \in {"password_hash", "encrypt_file"} -> 2
      [] op \in {"migrate_init", "migrate_init_key", "read_file"} -> 3
      [] op = "decrypt_file" -> 4
      [] OTHER -> 1

\* How many bool / i32 parameters.
NInts(op) ==
    CASE op = "migrate_init_key" -> 2
      [] op \in {"send_remote_cmd", "recv_msg_wait"} -> 1
      [] OTHER -> 0

(***************************************************************************)
(* A call about to be made: the wrapper, its arguments, and what the       *)
(* native function will answer (ret: the pointer returned, tok: the token  *)
(* written through the out-parameter, n: the integer returned).            *)
(***************************************************************************)
NoReq ==
    [op |-> "none", ctrl |-> NullCtrl, strs |-> <<>>, data |-> NoData,
     ints |-> <<>>, ret |-> NullPtr, tok |-> NullCtrl, n |-> 0]

\* r is a call of a wrapper among O with arguments and answers drawn from
\* the given sets.
Requested(r, O, S, C, D, I, R, RRead, T, N) ==
    \E op \in O :
      \E c \in (IF op \in SessionOps THEN C ELSE {NullCtrl}),
         s \in [1..NStr(op) -> S],
         d \in (IF op \in DataOps THEN D ELSE {NoData}),
         i \in [1..NInts(op) -> I],
         a \in (IF op = "read_file" THEN RRead
                ELSE IF op \in {"send_message", "json_length"} THEN {NullPtr}
                ELSE R),
         t \in (IF op \in OpenOps THEN T ELSE {NullCtrl}),
         n \in (IF op = "json_length" THEN N ELSE {0}) :
        r = [op |-> op, ctrl |-> c, strs |-> s, data |-> d, ints |-> i,
             ret |-> a, tok |-> t, n |-> n]

\* The caller makes the call req: one of the wrapper's outcomes becomes the
\* call's record, and the set of live tokens becomes newLive.
Do(op, outcomes, newLive) ==
    /\ pc = "ready"
    /\ req.op = op
    /\ call' \in outcomes
    /\ live' = newLive
    /\ pc' = "idle"
    /\ UNCHANGED req
    /\ UNCHANGED lifeVars

\* An open that reached the native side and got a token makes it live.
Opened(out) ==
    IF out.native # <<>> /\ out.result.tok # NullCtrl
    THEN live \cup {out.result.tok}
    ELSE live

Do_send_message == Do("send_message", {send_message(req.strs[1])}, live)

Do_migrate_init ==
    LET out == migrate_init(req.strs[1], req.strs[2], req.strs[3], req.tok, req.ret)
    IN  Do("migrate_init", {out}, Opened(out))

Do_migrate_init_key ==
    LET out == migrate_init_key(req.strs[1], req.strs[2], req.ints[1] = 1,
                                req.strs[3], req.ints[2] = 1, req.tok, req.ret)
    IN  Do("migrate_init_key", {out}, Opened(out))

Do_close_store ==
    Do("close_store", {close_store(req.ctrl, req.ret)}, live \ {req.ctrl})

Do_reopen_store == Do("reopen_store", {reopen_store(req.ctrl, req.ret)}, live)

Do_send_cmd == Do("send_cmd", {send_cmd(req.ctrl, req.strs[1], req.ret)}, live)

Do_send_remote_cmd ==
    Do("send_remote_cmd",
       {send_remote_cmd(req.ctrl, req.ints[1], req.strs[1], req.ret)}, live)

Do_recv_msg == Do("recv_msg", {recv_msg(req.ctrl, req.ret)}, live)

Do_recv_msg_wait ==
    Do("recv_msg_wait", {recv_msg_wait(req.ctrl, req.ints[1], req.ret)}, live)

Do_encrypt_media ==
    Do("encrypt_media",
       {encrypt_media(req.ctrl, req.strs[1], req.data, req.ret)}, live)

Do_decrypt_media ==
    Do("decrypt_media", {decrypt_media(req.strs[1], req.data, req.ret)}, live)

Do_parse_markdown ==
    Do("parse_markdown", {parse_markdown(req.strs[1], req.ret)}, live)

Do_parse_server == Do("parse_server", {parse_server(req.strs[1], req.ret)}, live)

Do_password_hash ==
    Do("password_hash", {password_hash(req.strs[1], req.strs[2], req.ret)}, live)

Do_valid_name == Do("valid_name", {valid_name(req.strs[1], req.ret)}, live)

Do_json_length == Do("json_length", {json_length(req.strs[1], req.n)}, live)

Do_write_file ==
    Do("write_file", {write_file(req.ctrl, req.strs[1], req.data, req.ret)}, live)

Do_read_file ==
    Do("read_file", read_file(req.strs[1], req.strs[2], req.strs[3], req.ret), live)

Do_encrypt_file ==
    Do("encrypt_file",
       {encrypt_file(req.ctrl, req.strs[1], req.strs[2], req.ret)}, live)

Do_decrypt_file ==
    Do("decrypt_file",
       {decrypt_file(req.strs[1], req.strs[2], req.strs[3], req.strs[4], req.ret)},
       live)

\* The call req has been made and call is its record.
Done == pc = "idle" /\ req.op # "none"

(***************************************************************************)
(* The inputs.                                                             *)
(***************************************************************************)
\* Bytes of a &str argument: the terminator byte and a letter.
StrBytes == {0, 97}

Strs == SeqsUpTo(StrBytes, MaxStrLen)

Ctrls == 0..MaxTokens

Bools == {0, 1}

\* usize lengths: 0, 1, 2^31 - 1, 2^31, 2^32 - 1, 2^32 + 5.
DataLens ==
    {<<0, 0, 0, 0>>, <<0, 0, 0, 1>>, <<0, 0, 32767, 65535>>, <<0, 0, 32768, 0>>,
     <<0, 0, 65535, 65535>>, <<0, 1, 0, 5>>}

Datas == {[ptr |-> 1, len |-> l] : l \in DataLens}

\* A native C-string result: null, or "{}".
PlainRets == {NullPtr, Ptr(<<123, 125, 0>>)}

JsonLengths == {0, 2}

\* Bytes of a native read-file buffer: the terminator, a letter, the two
\* bytes of U+00E9 (each alone is malformed UTF-8).
BufBytes == {0, 97, 195, 169}

BigLen == 16 * 256

be_bytes(n) ==
    <<n \div 16777216, (n \div 65536) % 256, (n \div 256) % 256, n % 256>>

\* [0x00][L, big-endian][L bytes]: every payload up to MaxPayload bytes, and
\* two payloads of 4096 bytes.
SuccessBufs ==
    {<<0>> \o be_bytes(Len(p)) \o p : p \in SeqsUpTo(BufBytes, MaxPayload)}
    \cup {<<0>> \o be_bytes(BigLen) \o [i \in 1..BigLen |-> (i * k) % 256] :
            k \in {1, 7}}

\* [status # 0][bytes][0][bytes]: a nonzero status, then up to MaxMsgBuf
\* bytes among which a terminator.
FailureBufs ==
    {<<st>> \o w : st \in {1, 255},
                   w \in {x \in SeqsUpTo(BufBytes, MaxMsgBuf) :
                            \E i \in 1..Len(x) : x[i] = 0}}

ReadRets == {Ptr(m) : m \in SuccessBufs \cup FailureBufs}

ReadStrs == {<<>>, <<97>>}

MarshalReadRets ==
    {NullPtr, Ptr(<<0, 0, 0, 0, 1, 97>>), Ptr(<<1, 97, 98, 99, 100, 0>>)}

(***************************************************************************)
(* Specifications.                                                         *)
(***************************************************************************)
\* Threads calling initialize() and shutdown() in any interleaving.
InitLife ==
    /\ LifeInit
    /\ pc = "idle" /\ req = NoReq /\ call = NoCall /\ live = {}

NextLife ==
    \E t \in Threads :
        \/ initialize(t) /\ UNCHANGED callVars
        \/ call_once_done(t) /\ UNCHANGED callVars
        \/ call_once(t) /\ UNCHANGED callVars
        \/ hs_init(t) /\ UNCHANGED callVars
        \/ initChatClient(t) /\ UNCHANGED callVars
        \/ call_once_complete(t) /\ UNCHANGED callVars
        \/ shutdown(t) /\ UNCHANGED callVars

SpecLife == InitLife /\ [][NextLife]_vars

NextCalls ==
    \/ Do_send_message
    \/ Do_migrate_init
    \/ Do_migrate_init_key
    \/ Do_close_store
    \/ Do_reopen_store
    \/ Do_send_cmd
    \/ Do_send_remote_cmd
    \/ Do_recv_msg
    \/ Do_recv_msg_wait
    \/ Do_encrypt_media
    \/ Do_decrypt_media
    \/ Do_parse_markdown
    \/ Do_parse_server
    \/ Do_password_hash
    \/ Do_valid_name
    \/ Do_json_length
    \/ Do_write_file
    \/ Do_read_file
    \/ Do_encrypt_file
    \/ Do_decrypt_file

\* One call of any wrapper, with any arguments and any native answer.
InitMarshal ==
    /\ LifeInit
    /\ pc = "ready" /\ call = NoCall /\ live = {}
    /\ Requested(req, Ops, Strs, Ctrls, Datas, Bools, PlainRets,
                 MarshalReadRets, Ctrls, JsonLengths)

SpecMarshal == InitMarshal /\ [][NextCalls]_vars

\* One call of read_file, with any native result buffer of the two shapes.
InitRead ==
    /\ LifeInit
    /\ pc = "ready" /\ call = NoCall /\ live = {}
    /\ Requested(req, {"read_file"}, ReadStrs, {NullCtrl}, {NoData}, Bools,
                 PlainRets, ReadRets, {NullCtrl}, {0})

SpecRead == InitRead /\ [][Do_read_file]_vars

\* A caller that opens, uses and closes sessions, call after call.  Nothing
\* ties the ctrl it passes to what an open returned: ctrl is a raw pointer.
HandleStrs == {<<97>>, <<0>>}

Request ==
    /\ pc = "idle"
    /\ Requested(req', OpenOps \cup SessionOps, HandleStrs, Ctrls, {NoData}, {0},
                 {Ptr(<<0>>)}, {NullPtr}, Ctrls, {0})
    /\ pc' = "ready"
    /\ call' = NoCall
    /\ UNCHANGED live
    /\ UNCHANGED lifeVars

InitHandle ==
    /\ LifeInit
    /\ pc = "idle" /\ req = NoReq /\ call = NoCall /\ live = {}

NextHandle ==
    \/ Request
    \/ Do_migrate_init
    \/ Do_migrate_init_key
    \/ Do_close_store
    \/ Do_reopen_store
    \/ Do_send_cmd
    \/ Do_send_remote_cmd
    \/ Do_recv_msg
    \/ Do_recv_msg_wait
    \/ Do_encrypt_media
    \/ Do_write_file
    \/ Do_encrypt_file

SpecHandle == InitHandle /\ [][NextHandle]_vars

(***************************************************************************)
(* Properties.                                                             *)
(***************************************************************************)
HasNul(s) == \E i \in 1..Len(s) : s[i] = 0

\* The native function was reached by the call just made.
Reached == Done /\ call.native # <<>>

\* The native read-file buffer of the call just made.
Buf == req.ret.mem

\* The offset of the first 0 byte at or after offset from.
FirstNulFrom(mem, from) == Min({o \in from..(Len(mem) - 1) : mem[o + 1] = 0})

\* The bytes at offsets a .. b - 1.
Bytes(mem, a, b) == [i \in 1..(b - a) |-> mem[a + i]]

\* C1: with threads calling initialize() concurrently, hs_init and then
\* initChatClient run at most once each, in that order, and once any call of
\* initialize() has returned both have run exactly once and the Once is
\* complete.
C1_BootstrapOnce ==
    /\ hs_init_calls <= 1
    /\ initChatClient_calls <= hs_init_calls
    /\ \A t \in Threads :
          initReturned[t] > 0 =>
              /\ hs_init_calls = 1
              /\ initChatClient_calls = 1
              /\ START = "COMPLETE"

\* Every thread has called initialize() once, and every call has returned.
C1_Witness ==
    /\ initialize_calls = NThreads
    /\ \A t \in Threads : initReturned[t] = 1
    /\ hs_init_calls = 1

\* C2: a session-scoped wrapper reaches the native side only with a token
\* that an open returned and that has not been closed since.
C2_OnlyLiveTokens ==
    [][(pc = "ready" /\ req.op \in SessionOps /\ call'.native # <<>>)
          => req.ctrl \in live]_vars

\* C3: a wrapper with string arguments returns Err(InvalidString) without any
\* native invocation when some argument, in any position, holds a 0 byte;
\* otherwise it does not return InvalidString and the native function gets
\* each argument with a terminator appended.
C3_InvalidString ==
    (Done /\ NStr(req.op) > 0) =>
        IF \E k \in 1..Len(req.strs) : HasNul(req.strs[k])
        THEN call.result = Err("InvalidString") /\ call.native = <<>>
        ELSE /\ call.result.err # "InvalidString"
             /\ Len(call.native) = 1
             /\ call.native[1].strs =
                    [k \in 1..Len(req.strs) |-> req.strs[k] \o <<0>>]

\* decrypt_file was called with a 0 byte in its last argument only, after a
\* letter, and returned InvalidString.
C3_Witness ==
    /\ Done
    /\ req.op = "decrypt_file"
    /\ \A k \in 1..3 : ~HasNul(req.strs[k])
    /\ req.strs[4] = <<97, 0>>
    /\ call.result = Err("InvalidString")

\* C4: for a native buffer [0x00][L big-endian][L bytes], read_file returns
\* Ok((0, data)) with data exactly the L bytes at offsets 5 .. 5 + L - 1.
C4_SuccessPayload ==
    (/\ Reached
     /\ req.op = "read_file"
     /\ ~req.ret.null
     /\ Buf[1] = 0
     /\ Bytes(Buf, 1, 5) = be_bytes(Len(Buf) - 5))
    => call.result = Ok_data(0, Len(Buf) - 5, Bytes(Buf, 5, Len(Buf)), FALSE)

\* read_file decoded a buffer with a payload of 4096 bytes.
C4_Witness ==
    /\ Reached
    /\ req.op = "read_file"
    /\ ~req.ret.null
    /\ Buf[1] = 0
    /\ Len(Buf) = 5 + BigLen
    /\ call.result.kind = "Ok"
    /\ Len(call.result.data) = BigLen

\* C5, as stated: for a buffer with a nonzero status byte, read_file returns
\* ChatError with the bytes between the four length bytes (offsets 1-4) and
\* the terminator after them, whatever the length bytes are.
C5_MessageAfterLengthField ==
    (/\ Reached
     /\ req.op = "read_file"
     /\ ~req.ret.null
     /\ Buf[1] # 0
     /\ \E o \in 5..(Len(Buf) - 1) : Buf[o + 1] = 0)
    => call.result = ChatError(Bytes(Buf, 5, FirstNulFrom(Buf, 5)))

\* C5, amended: for a buffer with a nonzero status byte and at least four
\* bytes after it, read_file returns ChatError with the bytes from offset 1
\* up to the first 0 byte (the bytes at offsets 1-4 included) when these are
\* well-formed UTF-8, and Utf8Error when they are not.
C5_MessageFromOffsetOne ==
    (/\ Reached
     /\ req.op = "read_file"
     /\ ~req.ret.null
     /\ Buf[1] # 0
     /\ Len(Buf) >= 5)
    => LET msg == Bytes(Buf, 1, FirstNulFrom(Buf, 1)) IN
       call.result = IF Utf8Valid(msg) THEN ChatError(msg) ELSE Err("Utf8Error")

\* read_file returned a ChatError whose message starts in the length bytes
\* and runs past them.
C5_Witness ==
    /\ Reached
    /\ req.op = "read_file"
    /\ ~req.ret.null
    /\ Buf[1] # 0
    /\ call.result.err = "ChatError"
    /\ Len(call.result.msg) = 5
    /\ call.result.msg[5] = 97

\* C6: when the native read-file call returns null, read_file returns
\* Err(NullPointer) and reads no byte through the pointer.
C6_NullPointer ==
    (Reached /\ req.op = "read_file" /\ req.ret.null)
    => call.result = Err("NullPointer") /\ call.reads = {}

\* read_file was called with three valid, non-empty strings and the native
\* call returned null.
C6_Witness ==
    /\ Reached
    /\ req.op = "read_file"
    /\ req.ret.null
    /\ \A k \in 1..3 : req.strs[k] = <<97, 97>>
    /\ call.result.err = "NullPointer"

\* C7: whatever the calls of initialize() and shutdown(), hs_init runs at most
\* once, hs_exit runs at most once, and hs_exit does not run when initialize()
\* was never called.
C7_StartStopOnce ==
    /\ hs_init_calls <= 1
    /\ hs_exit_calls <= 1
    /\ initialize_calls = 0 => hs_exit_calls = 0

\* C8: the length handed to the native function by write_file, encrypt_media
\* and decrypt_media is the buffer's length, for every length.
C8_ExactLength ==
    (Reached /\ req.op \in DataOps) =>
        /\ req.data.len[1] = 0
        /\ req.data.len[2] = 0
        /\ req.data.len[3] < Limb \div 2
        /\ call.native[1].len = req.data.len[3] * Limb + req.data.len[4]

\* C9: a wrapper that returns a result string returns Err(NullPointer) when
\* the native function returns null.
C9_NullIsError ==
    (/\ Reached
     /\ req.op \in {"parse_markdown", "parse_server", "password_hash",
                    "valid_name", "send_cmd", "send_remote_cmd", "write_file",
                    "encrypt_file", "decrypt_file", "encrypt_media",
                    "decrypt_media"}
     /\ req.ret.null)
    => call.result = Err("NullPointer")

\* C10: read_file reads only offsets of the documented shape: 0 .. 4 + L when
\* the status byte is 0, else offset 0 and offsets 1 .. the first 0 byte.
C10_ReadsWithinShape ==
    (Reached /\ req.op = "read_file" /\ ~req.ret.null) =>
        IF Buf[1] = 0
        THEN call.reads \subseteq 0..(Len(Buf) - 1)
        ELSE call.reads \subseteq 0..FirstNulFrom(Buf, 1)

====
